---- MODULE Spec2Model ----
(***************************************************************************)
(* Model of the glTF -> V3D converter v3d-tool (src/v3d-tool/src/main.rs). *)
(*                                                                         *)
(* The input document (nodes, meshes, primitives, materials) is immutable  *)
(* and chosen in Init.  write_v3d is the process: it writes the header,    *)
(* then one section per mesh-bearing node, then the end marker.  The       *)
(* output is a sequence of field tokens, one per write_* call of the code, *)
(* in the order the code issues them; byte blocks are kept by their        *)
(* lengths and block boundaries.  A `?` of the code is modelled by a       *)
(* writer whose result is no longer "ok": every later write is a no-op.    *)
(* A panic (assert!, unwrap, expect, panic!, out-of-bounds index) ends the *)
(* run with result "panic".                                                *)
(***************************************************************************)
EXTENDS Integers, Sequences, FiniteSets, TLC

VARIABLES doc, pc, idx, wrt, meshData

vars == <<doc, pc, idx, wrt, meshData>>

(***************************************************************************)
(* Program constants                                                       *)
(***************************************************************************)
V3M_SIGNATURE == 1380332356   \* 0x52463344
V3D_VERSION == 262144         \* 0x40000
V3D_END == 0
V3D_SUBMESH == 1398096461     \* 0x5355424D
MAX_TEXTURES == 7
U16_MAX == 65535

\* variant: the index limit taken from the vertex constants
index_limit_FromVertexBuffer == 6000 - 768

index_limit == 10000 - 768

vertex_limit == 6000 - 768

\* the literal the vertex-count comparison of write_v3d_batch_info uses
vertex_check_bound == 6000

(***************************************************************************)
(* Strings: a string is a sequence of one-character strings.  Rust orders  *)
(* String values bytewise, so characters carry their byte value.           *)
(***************************************************************************)
CharCode(c) ==
    CASE c = "." -> 46 [] c = "/" -> 47 [] c = "D" -> 68 [] c = "R" -> 82
      [] c = "_" -> 95 [] c = "a" -> 97 [] c = "b" -> 98 [] c = "c" -> 99
      [] c = "d" -> 100 [] c = "e" -> 101 [] c = "f" -> 102 [] c = "g" -> 103
      [] c = "k" -> 107 [] c = "l" -> 108 [] c = "n" -> 110 [] c = "p" -> 112
      [] c = "t" -> 116 [] c = "u" -> 117

\* Ord for str: lexicographic on bytes
RECURSIVE StrLess(_, _)
StrLess(s, t) ==
    IF s = <<>> THEN t # <<>>
    ELSE IF t = <<>> THEN FALSE
    ELSE IF Head(s) = Head(t) THEN StrLess(Tail(s), Tail(t))
    ELSE CharCode(Head(s)) < CharCode(Head(t))

\* Option<T>: None is the empty tuple, Some(x) a one-element tuple
None == <<>>
Some(x) == <<x>>
IsSome(o) == o # <<>>
Unwrap(o) == o[1]

\* str::find('.'): byte offset (0-based) of the first '.', if any
RECURSIVE FindDotFrom(_, _)
FindDotFrom(name, i) ==
    IF i > Len(name) THEN None
    ELSE IF name[i] = "." THEN Some(i - 1)
    ELSE FindDotFrom(name, i + 1)

FindDot(name) == FindDotFrom(name, 1)

TGA_EXT == <<".", "t", "g", "a">>

change_texture_ext_to_tga(name) ==
    LET found == FindDot(name)
        dot_offset == IF IsSome(found) THEN Unwrap(found) ELSE Len(name)
    IN  SubSeq(name, 1, dot_offset) \o TGA_EXT

DEFAULT_TEXTURE ==
    <<"R", "c", "k", "_", "D", "e", "f", "a", "u", "l", "t", ".", "t", "g", "a">>

(***************************************************************************)
(* Materials.  A material has an optional base colour texture; the texture *)
(* has a sampler (wrapS, wrapT) and an image with an optional name and an  *)
(* optional URI (None for an image stored in a buffer view).               *)
(***************************************************************************)
WrappingModes == {"ClampToEdge", "MirroredRepeat", "Repeat"}
AlphaModes == {"Opaque", "Mask", "Blend"}

get_material_base_color_texture_name(material) ==
    IF material.baseTex /\ IsSome(material.imgName)
        THEN change_texture_ext_to_tga(Unwrap(material.imgName))
    ELSE IF material.baseTex /\ IsSome(material.uri)
        THEN change_texture_ext_to_tga(Unwrap(material.uri))
    ELSE DEFAULT_TEXTURE

\* enum discriminants
TextureSource_Wrap == 1
TextureSource_Clamp == 2
ColorOp_Mul == 2
AlphaOp_Mul == 3
AlphaBlend_None == 0
AlphaBlend_AlphaBlendAlpha == 3
ZbufferType_Full == 4
ZbufferType_FullAlphaTest == 5
FogType_Type0 == 0
FogType_ForceOff == 3

\* u32 operators
RECURSIVE BitOr(_, _)
BitOr(a, b) ==
    IF a = 0 THEN b
    ELSE IF b = 0 THEN a
    ELSE (IF a % 2 = 1 \/ b % 2 = 1 THEN 1 ELSE 0) + 2 * BitOr(a \div 2, b \div 2)

RECURSIVE Pow2(_)
Pow2(n) == IF n = 0 THEN 1 ELSE 2 * Pow2(n - 1)

\* a << n on u32.  The operands of the code are enum discriminants below 2^3
\* shifted by at most 25, so no bit leaves the 32-bit word.
Shl(a, n) == a * Pow2(n)

\* `x as u32` of a usize: x modulo 2^32, which is x for every count of the
\* model (all of them are below 2^31).
AsU32(x) == x

\* variant: the texture source decided by the T wrapping mode
TexSrcOf_WrapT(material) ==
    IF material.baseTex
        THEN IF material.wrapT = "ClampToEdge" THEN TextureSource_Clamp
             ELSE TextureSource_Wrap
    ELSE TextureSource_Wrap

TexSrcOf(material) ==
    IF material.baseTex
        THEN IF material.wrapS = "ClampToEdge" THEN TextureSource_Clamp
             ELSE TextureSource_Wrap
    ELSE TextureSource_Wrap

FogOf(material) == FogType_Type0

AlphaBlendOf(material) ==
    IF material.alphaMode = "Blend" THEN AlphaBlend_AlphaBlendAlpha
    ELSE AlphaBlend_None

ZbufferTypeOf(material) ==
    IF material.alphaMode = "Opaque" THEN ZbufferType_Full
    ELSE ZbufferType_FullAlphaTest

compute_render_state_for_material(material) ==
    LET tex_src == TexSrcOf(material)
        color_op == ColorOp_Mul
        alpha_op == AlphaOp_Mul
        alpha_blend == AlphaBlendOf(material)
        zbuffer_type == ZbufferTypeOf(material)
        fog == FogOf(material)
    IN  BitOr(BitOr(BitOr(BitOr(BitOr(tex_src, Shl(color_op, 5)), Shl(alpha_op, 10)),
                          Shl(alpha_blend, 15)), Shl(zbuffer_type, 20)), Shl(fog, 25))

\* the warnings compute_render_state_for_material prints (eprintln!)
render_state_warnings(material) ==
    IF material.baseTex
        THEN (IF material.wrapT # material.wrapS THEN {"Ignoring wrapT"} ELSE {})
             \cup (IF material.wrapS = "MirroredRepeat"
                       THEN {"MirroredRepeat not supported"} ELSE {})
    ELSE {}

(***************************************************************************)
(* Sorting and searching of string vectors                                 *)
(***************************************************************************)
\* Vec::sort on Vec<String> (ascending, stable): insertion into a sorted prefix
RECURSIVE InsertSorted(_, _)
InsertSorted(sorted, x) ==
    IF sorted = <<>> THEN <<x>>
    ELSE IF StrLess(x, Head(sorted)) THEN <<x>> \o sorted
    ELSE <<Head(sorted)>> \o InsertSorted(Tail(sorted), x)

RECURSIVE SortStrings(_)
SortStrings(v) ==
    IF v = <<>> THEN <<>>
    ELSE InsertSorted(SortStrings(SubSeq(v, 1, Len(v) - 1)), v[Len(v)])

\* Vec::dedup: removes consecutive repeated elements
RECURSIVE Dedup(_)
Dedup(v) ==
    IF Len(v) <= 1 THEN v
    ELSE IF v[1] = v[2] THEN Dedup(Tail(v))
    ELSE <<v[1]>> \o Dedup(Tail(v))

\* Iterator::position: 0-based index of the first element equal to x
RECURSIVE PositionFrom(_, _, _)
PositionFrom(v, x, i) ==
    IF i > Len(v) THEN None
    ELSE IF v[i] = x THEN Some(i - 1)
    ELSE PositionFrom(v, x, i + 1)

Position(v, x) == PositionFrom(v, x, 1)

(***************************************************************************)
(* Primitives, meshes, nodes                                               *)
(***************************************************************************)
\* the resolved texture name of every primitive of the mesh, in primitive order
PrimitiveTextureNames(mesh) ==
    [i \in 1..Len(mesh) |-> get_material_base_color_texture_name(mesh[i].material)]

\* variant: the texture names deduplicated without being sorted first
get_submesh_textures_NoSort(node) ==
    LET mesh == Unwrap(node.mesh)
        textures == PrimitiveTextureNames(mesh)
    IN  Dedup(textures)

get_submesh_textures(node) ==
    LET mesh == Unwrap(node.mesh)
        textures == PrimitiveTextureNames(mesh)
    IN  Dedup(SortStrings(textures))

get_primitive_vertex_count(prim) ==
    IF prim.hasPositions THEN prim.vertexCount ELSE 0

RECURSIVE SumVertexCounts(_, _)
SumVertexCounts(mesh, i) ==
    IF i > Len(mesh) THEN 0
    ELSE get_primitive_vertex_count(mesh[i]) + SumVertexCounts(mesh, i + 1)

count_mesh_vertices(mesh) == SumVertexCounts(mesh, 1)

\* indices (into the node list, 1-based) of the nodes that have a mesh
RECURSIVE SubmeshNodesFrom(_, _)
SubmeshNodesFrom(d, i) ==
    IF i > Len(d) THEN <<>>
    ELSE (IF IsSome(d[i].mesh) THEN <<i>> ELSE <<>>) \o SubmeshNodesFrom(d, i + 1)

get_submesh_nodes(d) == SubmeshNodesFrom(d, 1)

(***************************************************************************)
(* The output writer.  Every write_* function of the code is modelled by   *)
(* the sequence of events it issues when nothing stops it: one token per   *)
(* write call, and an Err event where it returns Err(...) or a Panic event *)
(* where it panics.  No function reads back what was written, so cutting   *)
(* the sequence at its first Err/Panic event (Commit) is the effect of `?` *)
(* and of a panic.  res is "ok", "err" or "panic"; err holds the error.    *)
(* Floating-point payloads (positions, bounds, emissive factors) do not    *)
(* influence control flow or sizes and are written as 0.                   *)
(***************************************************************************)
NoErr == [msg |-> "", count |-> 0, limit |-> 0]

create_custom_error(msg, count, limit) == [msg |-> msg, count |-> count, limit |-> limit]

\* at: the node and primitive (0 for none) the failing call was working on
NewWriter == [out |-> <<>>, res |-> "ok", err |-> NoErr, at |-> <<0, 0>>]

Tok(kind, n, p, v) == [kind |-> kind, node |-> n, prim |-> p, val |-> v]

ErrEv(n, p, e) == [kind |-> "Err", node |-> n, prim |-> p, val |-> e]

PanicEv(n, p, e) == [kind |-> "Panic", node |-> n, prim |-> p, val |-> e]

IsFailure(ev) == ev.kind \in {"Err", "Panic"}

\* index of the first Err/Panic event of evs, or Len(evs) + 1
FirstFailure(evs) ==
    LET fails == {i \in 1..Len(evs) : IsFailure(evs[i])}
    IN  IF fails = {} THEN Len(evs) + 1
        ELSE CHOOSE i \in fails : \A j \in fails : i <= j

Commit(w, evs) ==
    LET f == FirstFailure(evs)
    IN  IF w.res # "ok" THEN w
        ELSE IF f > Len(evs) THEN [w EXCEPT !.out = @ \o evs]
        ELSE [out |-> w.out \o SubSeq(evs, 1, f - 1),
              res |-> IF evs[f].kind = "Err" THEN "err" ELSE "panic",
              err |-> evs[f].val,
              at |-> <<evs[f].node, evs[f].prim>>]

RECURSIVE Flatten(_)
Flatten(seqs) == IF seqs = <<>> THEN <<>> ELSE Head(seqs) \o Flatten(Tail(seqs))

\* write_u16(x.try_into().unwrap()): the conversion panics above u16::MAX
PutU16(kind, n, p, v) ==
    IF v > U16_MAX THEN PanicEv(n, p, create_custom_error("TryFromIntError", v, U16_MAX))
    ELSE Tok(kind, n, p, v)

RECURSIVE SumSeq(_)
SumSeq(v) == IF v = <<>> THEN 0 ELSE Head(v) + SumSeq(Tail(v))

\* variant: every node of the document counted as a submesh
write_v3d_header_AllNodes(d) ==
    LET nodes == get_submesh_nodes(d)
        num_all_materials ==
            SumSeq([k \in 1..Len(nodes) |-> Len(get_submesh_textures(d[nodes[k]]))])
    IN  <<Tok("signature", 0, 0, V3M_SIGNATURE),
          Tok("version", 0, 0, V3D_VERSION),
          Tok("submesh_count", 0, 0, AsU32(Len(d))),
          Tok("num_all_vertices", 0, 0, 0),
          Tok("num_all_triangles", 0, 0, 0),
          Tok("unknown0", 0, 0, 0),
          Tok("num_all_materials", 0, 0, AsU32(num_all_materials)),
          Tok("unknown1", 0, 0, 0),
          Tok("unknown2", 0, 0, 0),
          Tok("num_colspheres", 0, 0, 0)>>

write_v3d_header(d) ==
    LET nodes == get_submesh_nodes(d)
        num_all_materials ==
            SumSeq([k \in 1..Len(nodes) |-> Len(get_submesh_textures(d[nodes[k]]))])
        submesh_count == Len(nodes)
    IN  <<Tok("signature", 0, 0, V3M_SIGNATURE),
          Tok("version", 0, 0, V3D_VERSION),
          Tok("submesh_count", 0, 0, AsU32(submesh_count)),
          Tok("num_all_vertices", 0, 0, 0),
          Tok("num_all_triangles", 0, 0, 0),
          Tok("unknown0", 0, 0, 0),
          Tok("num_all_materials", 0, 0, AsU32(num_all_materials)),
          Tok("unknown1", 0, 0, 0),
          Tok("unknown2", 0, 0, 0),
          Tok("num_colspheres", 0, 0, 0)>>

(***************************************************************************)
(* The data section: a Vec<u8> kept by its length, the texture indices of  *)
(* its batch headers and the offset reached after every padding call.      *)
(* The functions that fill it issue operations: Bytes (append n bytes),    *)
(* Header (the i32 texture index of a batch header), Pad (the padding      *)
(* call that ends a block) and DataPanic; RunData applies them in order.   *)
(***************************************************************************)
NewData(n) ==
    [node |-> n, len |-> 0, hdr |-> <<>>, marks |-> <<>>, res |-> "ok", err |-> NoErr, at |-> 0]

Bytes(p, n) == [op |-> "bytes", prim |-> p, arg |-> n, block |-> ""]

Header(p, texture_idx) == [op |-> "header", prim |-> p, arg |-> texture_idx, block |-> ""]

Pad(p, block) == [op |-> "pad", prim |-> p, arg |-> 0, block |-> block]

DataPanic(p, msg) == [op |-> "panic", prim |-> p, arg |-> 0, block |-> msg]

\* variant: padding to a multiple of 8
RECURSIVE PaddedLen_To8(_)
PaddedLen_To8(len) == IF len % 8 # 0 THEN PaddedLen_To8(len + 1) ELSE len

\* while wrt.len() & 0xF != 0 { wrt.write_u8(0) }
RECURSIVE PaddedLen(_)
PaddedLen(len) == IF len % 16 # 0 THEN PaddedLen(len + 1) ELSE len

write_v3d_mesh_data_padding(b, p, block) ==
    LET l == PaddedLen(b.len)
    IN  [b EXCEPT !.len = l, !.marks = Append(@, [prim |-> p, block |-> block, off |-> l])]

ApplyData(b, o) ==
    CASE o.op = "bytes" -> [b EXCEPT !.len = @ + o.arg]
      [] o.op = "header" -> [b EXCEPT !.len = @ + 4, !.hdr = Append(@, o.arg)]
      [] o.op = "pad" -> write_v3d_mesh_data_padding(b, o.prim, o.block)
      [] o.op = "panic" ->
            [b EXCEPT !.res = "panic", !.err = create_custom_error(o.block, 0, 0),
                      !.at = o.prim]

RECURSIVE RunData(_, _, _)
RunData(b, ops, i) ==
    IF b.res # "ok" \/ i > Len(ops) THEN b
    ELSE RunData(ApplyData(b, ops[i]), ops, i + 1)

\* variant: the texture index taken in the sorted, deduplicated list
write_v3d_batch_header_SortedTable(prim, textures, p) ==
    LET texture_name == get_material_base_color_texture_name(prim.material)
        texture_idx == Position(Dedup(SortStrings(textures)), texture_name)
    IN  <<Bytes(p, 32),
          IF IsSome(texture_idx) THEN Header(p, Unwrap(texture_idx))
          ELSE DataPanic(p, "find texture"),
          Bytes(p, 56 - 36)>>

write_v3d_batch_header(prim, textures, p) ==
    LET texture_name == get_material_base_color_texture_name(prim.material)
        texture_idx == Position(textures, texture_name)
    IN  <<Bytes(p, 32),
          IF IsSome(texture_idx) THEN Header(p, Unwrap(texture_idx))
          ELSE DataPanic(p, "find texture"),
          Bytes(p, 56 - 36)>>

\* a block of the batch and the padding that ends it
Block(p, block, n) == <<Bytes(p, n), Pad(p, block)>>

write_v3d_batch_data(prim, p) ==
    LET v == prim.vertexCount
        tris == prim.indexCount \div 3
        num_vertices == get_primitive_vertex_count(prim)
    IN  (IF ~prim.hasPositions THEN <<DataPanic(p, "unwrap: no positions")>>
         ELSE Block(p, "positions", v * 3 * 4))
        \o (IF ~prim.hasNormals THEN <<DataPanic(p, "unwrap: no normals")>>
            ELSE Block(p, "normals", v * 3 * 4))
        \* texture coordinates, read or generated from the positions: 2 f32 each
        \o (IF prim.hasTexCoords THEN Block(p, "tex_coords", v * 2 * 4)
            ELSE Block(p, "tex_coords", v * 2 * 4))
        \o (IF ~prim.hasIndices THEN <<DataPanic(p, "mesh has no indices")>>
            ELSE IF prim.indexCount % 3 # 0
                THEN <<DataPanic(p, "number of indices is not a multiple of three")>>
            ELSE
                \* indices: tri[k].try_into().unwrap() to u16
                (IF prim.indexCount > 0 /\ prim.maxIndex > U16_MAX
                     THEN <<DataPanic(p, "TryFromIntError")>>
                 ELSE Block(p, "triangles", tris * 4 * 2))
                \* planes: positions[tri[k] as usize]
                \o (IF prim.indexCount > 0 /\ prim.maxIndex >= v
                        THEN <<DataPanic(p, "index out of bounds")>>
                    ELSE Block(p, "planes", tris * 4 * 4)))
        \o Block(p, "same_pos_vertex_offsets", num_vertices * 2)
        \o Block(p, "bone_links", num_vertices * 8)

create_v3d_mesh_data(mesh, textures, n) ==
    LET headers == Flatten([i \in 1..Len(mesh) |->
                               write_v3d_batch_header(mesh[i], textures, i)])
        datas == Flatten([i \in 1..Len(mesh) |-> write_v3d_batch_data(mesh[i], i)])
    IN  RunData(NewData(n),
                headers \o <<Pad(0, "headers")>> \o datas \o <<Pad(0, "final")>>, 1)

(***************************************************************************)
(* Batch info, LOD model, materials, sections                              *)
(***************************************************************************)
write_v3d_batch_info(prim, n, p) ==
    LET index_count == prim.indexCount
        tri_count == index_count \div 3
        vertex_count == get_primitive_vertex_count(prim)
    IN  IF prim.mode # "Triangles"
            THEN <<ErrEv(n, p, create_custom_error("only triangle list primitives are supported", 0, 0))>>
        ELSE IF ~prim.hasIndices
            THEN <<ErrEv(n, p, create_custom_error("not indexed geometry is not supported", 0, 0))>>
        ELSE IF index_count % 3 # 0
            THEN <<PanicEv(n, p, create_custom_error("number of indices is not a multiple of three",
                                                     index_count, 0))>>
        ELSE IF index_count > index_limit
            THEN <<ErrEv(n, p, create_custom_error("primitive has too many indices",
                                                   index_count, index_limit))>>
        ELSE IF vertex_count > vertex_check_bound
            THEN <<ErrEv(n, p, create_custom_error("primitive has too many vertices",
                                                   vertex_count, vertex_limit))>>
        ELSE <<PutU16("vertices_count", n, p, vertex_count),
               PutU16("triangles_count", n, p, tri_count),
               PutU16("positions_size", n, p, vertex_count * 3 * 4),
               PutU16("triangles_size", n, p, tri_count * 4 * 2),
               PutU16("same_pos_vertex_offsets_size", n, p, vertex_count * 2),
               PutU16("bone_links_size", n, p, vertex_count * 2 * 4),
               PutU16("tex_coords_size", n, p, vertex_count * 2 * 4),
               Tok("render_state", n, p, compute_render_state_for_material(prim.material))>>

write_v3d_lod_texture(tex_name, textures, n, k) ==
    LET id == Position(textures, tex_name)
    IN  IF ~IsSome(id)
            THEN <<PanicEv(n, k, create_custom_error("unwrap: no such texture", 0, 0))>>
        ELSE <<Tok("lod_texture_id", n, k, Unwrap(id)),
               Tok("lod_texture_name", n, k, Len(tex_name) + 1)>>

\* the texture list of the LOD model
LodTextures(mesh) == PrimitiveTextureNames(mesh)

\* evs: the events of the function; data: the data section it builds
write_v3d_lod_model(mesh, textures, n) ==
    LET lod_textures == LodTextures(mesh)
        batch_data == create_v3d_mesh_data(mesh, lod_textures, n)
    IN  [evs |->
            <<Tok("lod_flags", n, 0, 32),
              Tok("lod_unknown0", n, 0, AsU32(count_mesh_vertices(mesh))),
              Tok("num_batches", n, 0, Len(mesh) % (U16_MAX + 1))>>
            \o (IF batch_data.res # "ok" THEN <<PanicEv(n, batch_data.at, batch_data.err)>>
                ELSE <<Tok("data_size", n, 0, AsU32(batch_data.len)),
                       Tok("batch_data", n, 0, batch_data.len)>>)
            \o <<Tok("lod_unknown1", n, 0, -1)>>
            \o Flatten([i \in 1..Len(mesh) |-> write_v3d_batch_info(mesh[i], n, i)])
            \o <<Tok("num_prop_points", n, 0, 0)>>
            \o (IF Len(lod_textures) > MAX_TEXTURES
                    THEN <<ErrEv(n, 0, create_custom_error("found textures in a submesh but only are allowed",
                                                           Len(lod_textures), MAX_TEXTURES))>>
                ELSE <<Tok("num_lod_textures", n, 0, AsU32(Len(lod_textures)))>>)
            \o Flatten([k \in 1..Len(lod_textures) |->
                           write_v3d_lod_texture(lod_textures[k], textures, n, k)]),
         data |-> batch_data]

write_char_array(kind, n, p, string, size) ==
    IF Len(string) >= size
        THEN ErrEv(n, p, create_custom_error("string value is too long", Len(string), size - 1))
    ELSE Tok(kind, n, p, size)

write_v3d_material(tex_name, n, k) ==
    <<write_char_array("material_name", n, k, tex_name, 32),
      Tok("emissive_factor", n, k, 0),
      Tok("material_unknown0", n, k, 0),
      Tok("material_unknown1", n, k, 0),
      Tok("ref_cof", n, k, 0),
      Tok("ref_map_name", n, k, 32),
      Tok("material_flags", n, k, 17)>>

DEFAULT_NAME == <<"D", "e", "f", "a", "u", "l", "t">>
NONE_NAME == <<"N", "o", "n", "e">>

\* compute_mesh_bounding_sphere_radius panics on a primitive without positions
write_v3d_bounding_sphere(mesh, n) ==
    IF \E i \in 1..Len(mesh) : ~mesh[i].hasPositions
        THEN <<PanicEv(n, 0, create_custom_error("mesh has no positions", 0, 0))>>
    ELSE <<Tok("bounding_sphere_origin", n, 0, 0), Tok("bounding_sphere_radius", n, 0, 0)>>

write_v3d_bounding_box(mesh, n) ==
    <<Tok("aabb_min", n, 0, 0), Tok("aabb_max", n, 0, 0)>>

\* evs: the events of the function; data: Some(the data section) when the
\* function gets as far as create_v3d_mesh_data, None otherwise
write_v3d_subm_sect(node, n) ==
    LET mesh == Unwrap(node.mesh)
        name == IF IsSome(node.name) THEN Unwrap(node.name) ELSE DEFAULT_NAME
        textures == get_submesh_textures(node)
        before == <<Tok("section_type", n, 0, V3D_SUBMESH),
                    Tok("section_size", n, 0, 0),
                    write_char_array("name", n, 0, name, 24),
                    write_char_array("unknown0", n, 0, NONE_NAME, 24),
                    Tok("submesh_version", n, 0, 7),
                    Tok("num_lods", n, 0, 1),
                    Tok("lod_distances", n, 0, 0)>>
                  \o write_v3d_bounding_sphere(mesh, n)
                  \o write_v3d_bounding_box(mesh, n)
        lod == write_v3d_lod_model(mesh, textures, n)
    IN  [evs |-> before
                 \o lod.evs
                 \o <<Tok("num_materials", n, 0, AsU32(Len(textures)))>>
                 \o Flatten([k \in 1..Len(textures) |-> write_v3d_material(textures[k], n, k)])
                 \o <<Tok("num_unknown1", n, 0, 1),
                      write_char_array("unknown1_name", n, 0, name, 24),
                      Tok("unknown1_float", n, 0, 0)>>,
         data |-> IF FirstFailure(before) > Len(before) THEN Some(lod.data) ELSE None]

write_v3d_end_sect ==
    <<Tok("section_type", 0, 0, V3D_END), Tok("section_size", 0, 0, 0)>>

(***************************************************************************)
(* Input documents                                                         *)
(***************************************************************************)
MaxNodes == 3       \* nodes of a document
MaxPrims == 2       \* primitives of a mesh built freely from CorePrims
MaxTexPrims == 8    \* primitives of a mesh of the texture-table family
MaxPermLen == 4     \* meshes up to this length are reordered in every possible way

PngName(c) == <<c, ".", "p", "n", "g">>

Mat(baseTex, imgName, uri, wrapS, wrapT, alphaMode, doubleSided) ==
    [baseTex |-> baseTex, imgName |-> imgName, uri |-> uri, wrapS |-> wrapS,
     wrapT |-> wrapT, alphaMode |-> alphaMode, doubleSided |-> doubleSided]

\* a material whose base colour texture is the named image
NamedMat(name) == Mat(TRUE, Some(name), None, "Repeat", "Repeat", "Opaque", FALSE)

BaseMat == NamedMat(PngName("a"))

LongName == [i \in 1..28 |-> "a"] \o <<".", "p", "n", "g">>

Materials ==
    {Mat(TRUE, Some(PngName("a")), None, s, t, a, FALSE) :
        s \in WrappingModes, t \in WrappingModes, a \in AlphaModes}
    \cup {Mat(FALSE, None, None, "Repeat", "Repeat", a, FALSE) : a \in AlphaModes}
    \cup {Mat(TRUE, None, Some(<<"b", "/", "c", ".", "d", ".", "p", "n", "g">>),
              "Repeat", "Repeat", "Opaque", FALSE),
          Mat(TRUE, Some(PngName("a")), Some(PngName("b")), "Repeat", "Repeat", "Opaque", TRUE),
          Mat(TRUE, None, None, "ClampToEdge", "Repeat", "Blend", FALSE),
          NamedMat(<<"a", ".", "b", ".", "p", "n", "g">>),
          NamedMat(<<"a", "b">>),
          NamedMat(<<>>),
          NamedMat(LongName)}

Prim(mode, hasI, indexCount, maxIndex, hasP, vertexCount, hasN, hasT, material) ==
    [mode |-> mode, hasIndices |-> hasI, indexCount |-> indexCount,
     maxIndex |-> maxIndex, hasPositions |-> hasP, vertexCount |-> vertexCount,
     hasNormals |-> hasN, hasTexCoords |-> hasT, material |-> material]

\* one indexed triangle with all attributes
BasePrim == Prim("Triangles", TRUE, 3, 2, TRUE, 3, TRUE, TRUE, BaseMat)

IndexCounts == {0, 3, 6, 9228, 9231, 9232, 9233, 9234, 9237}

VertexCounts == {1, 3, 5232, 5233, 5461, 5462, 6000, 6001}

PrimSet ==
    {[BasePrim EXCEPT !.indexCount = c] : c \in IndexCounts}
    \cup {[BasePrim EXCEPT !.vertexCount = v, !.maxIndex = 0] : v \in VertexCounts}
    \cup {[BasePrim EXCEPT !.vertexCount = v, !.indexCount = c, !.maxIndex = 0] :
             v \in {5233, 6001}, c \in {9233, 9234}}
    \cup {[BasePrim EXCEPT !.material = m] : m \in Materials}
    \cup {[BasePrim EXCEPT !.mode = "Lines", !.indexCount = c] : c \in {2, 6}}
    \cup {[BasePrim EXCEPT !.mode = "Lines", !.hasIndices = FALSE, !.indexCount = 0],
          [BasePrim EXCEPT !.hasIndices = FALSE, !.indexCount = 0],
          [BasePrim EXCEPT !.hasPositions = FALSE, !.vertexCount = 0],
          [BasePrim EXCEPT !.hasNormals = FALSE],
          [BasePrim EXCEPT !.hasTexCoords = FALSE],
          [BasePrim EXCEPT !.vertexCount = 0, !.indexCount = 0, !.maxIndex = 0],
          [BasePrim EXCEPT !.maxIndex = 3],
          [BasePrim EXCEPT !.maxIndex = 65536]}

CorePrims ==
    {BasePrim,
     [BasePrim EXCEPT !.material = NamedMat(PngName("b")), !.vertexCount = 5],
     [BasePrim EXCEPT !.indexCount = 9234],
     [BasePrim EXCEPT !.vertexCount = 5233],
     [BasePrim EXCEPT !.hasIndices = FALSE, !.indexCount = 0],
     [BasePrim EXCEPT !.mode = "Lines", !.indexCount = 6]}

SeqsUpTo(S, n) == UNION {[1..k -> S] : k \in 0..n}

TexChar == <<"a", "b", "c", "d", "e", "f", "g", "k", "l", "n", "p", "t", "u">>

\* n valid primitives over d distinct textures, cycling upwards or downwards
TexMesh(n, d, up) ==
    [i \in 1..n |->
        [BasePrim EXCEPT !.material =
            NamedMat(PngName(TexChar[IF up THEN ((i - 1) % d) + 1 ELSE d - ((i - 1) % d)]))]]

TexMeshes == {TexMesh(n, d, up) : n \in 1..MaxTexPrims, d \in 1..MaxTexPrims, up \in BOOLEAN}

MeshSet == SeqsUpTo(CorePrims, MaxPrims) \cup {<<p>> : p \in PrimSet} \cup TexMeshes

Node(name, mesh) == [name |-> name, mesh |-> mesh]

ShortName == <<"a", "b">>

SimpleNodes == {Node(None, None), Node(Some(ShortName), Some(<<BasePrim>>))}

FreeNodes ==
    {Node(None, Some(m)) : m \in MeshSet}
    \cup {Node(Some([i \in 1..l |-> "a"]), Some(<<BasePrim>>)) : l \in {0, 23, 24}}
    \cup SimpleNodes

\* documents of up to MaxNodes nodes: one node drawn from FreeNodes at any
\* position, the others from SimpleNodes
DocSet ==
    UNION {{[d EXCEPT ![k] = f] : d \in [1..n -> SimpleNodes], k \in 1..n, f \in FreeNodes} :
           n \in 1..MaxNodes}

(***************************************************************************)
(* write_v3d as a process                                                  *)
(***************************************************************************)
Init ==
    /\ doc \in DocSet
    /\ pc = "header"
    /\ idx = 1
    /\ wrt = NewWriter
    /\ meshData = <<>>

WriteHeader ==
    /\ pc = "header"
    /\ wrt' = Commit(wrt, write_v3d_header(doc))
    /\ pc' = "sections"
    /\ UNCHANGED <<doc, idx, meshData>>

\* variant: the loop goes on to the next node after a failed section
WriteSubmSect_KeepGoing ==
    /\ pc = "sections"
    /\ idx <= Len(get_submesh_nodes(doc))
    /\ LET n == get_submesh_nodes(doc)[idx]
           r == write_v3d_subm_sect(doc[n], n)
           w == Commit(wrt, r.evs)
       IN  /\ wrt' = [w EXCEPT !.res = "ok"]
           /\ meshData' = meshData \o r.data
           /\ pc' = "sections"
           /\ idx' = idx + 1
    /\ UNCHANGED doc

\* one iteration of the loop over get_submesh_nodes(document)
WriteSubmSect ==
    /\ pc = "sections"
    /\ idx <= Len(get_submesh_nodes(doc))
    /\ LET n == get_submesh_nodes(doc)[idx]
           r == write_v3d_subm_sect(doc[n], n)
           w == Commit(wrt, r.evs)
       IN  /\ wrt' = w
           /\ meshData' = meshData \o r.data
           /\ pc' = IF w.res = "ok" THEN "sections"
                    ELSE IF w.res = "err" THEN "failed" ELSE "panicked"
           /\ idx' = IF w.res = "ok" THEN idx + 1 ELSE idx
    /\ UNCHANGED doc

WriteEndSect ==
    /\ pc = "sections"
    /\ idx > Len(get_submesh_nodes(doc))
    /\ wrt' = Commit(wrt, write_v3d_end_sect)
    /\ pc' = "done"
    /\ UNCHANGED <<doc, idx, meshData>>

Next == WriteHeader \/ WriteSubmSect \/ WriteEndSect

Spec == Init /\ [][Next]_vars

(***************************************************************************)
(* Vocabulary of the properties                                            *)
(***************************************************************************)
Nodes == get_submesh_nodes(doc)

\* the k-th mesh-bearing node has been converted, to its end or to its failure
Attempted(k) ==
    /\ pc # "header"
    /\ k \in 1..Len(Nodes)
    /\ k < idx \/ (k = idx /\ pc \in {"failed", "panicked"})

\* the conversion stopped in the k-th mesh-bearing node
FailedHere(k) == k = idx /\ pc \in {"failed", "panicked"}

MeshOf(k) == Unwrap(doc[Nodes[k]].mesh)

HasTok(kind, n, p) ==
    \E i \in 1..Len(wrt.out) :
        wrt.out[i].kind = kind /\ wrt.out[i].node = n /\ wrt.out[i].prim = p

TokVal(kind, n, p) ==
    LET i == CHOOSE j \in 1..Len(wrt.out) :
                 wrt.out[j].kind = kind /\ wrt.out[j].node = n /\ wrt.out[j].prim = p
    IN  wrt.out[i].val

\* the data section built for node n, if create_v3d_mesh_data ran for it
HasData(n) == \E i \in 1..Len(meshData) : meshData[i].node = n

DataOf(n) == meshData[CHOOSE i \in 1..Len(meshData) : meshData[i].node = n]

\* an indexed triangle list with positions, normals, indices within the
\* vertices, and a vertex count within the documented limit
ValidButIndexCount(prim) ==
    /\ prim.mode = "Triangles" /\ prim.hasIndices
    /\ prim.hasPositions /\ prim.hasNormals
    /\ prim.indexCount = 0 \/ prim.maxIndex < prim.vertexCount
    /\ prim.vertexCount <= 5232

\* the k-th mesh-bearing node has exactly one primitive, an otherwise valid
\* one, and its LOD model was reached
SinglePrimCase(k) ==
    /\ Attempted(k)
    /\ Len(MeshOf(k)) = 1
    /\ ValidButIndexCount(MeshOf(k)[1])
    /\ HasTok("lod_flags", Nodes[k], 0)

TooManyIndices(k, c) ==
    /\ FailedHere(k) /\ wrt.res = "err"
    /\ wrt.err = [msg |-> "primitive has too many indices", count |-> c, limit |-> 9232]
    /\ wrt.at = <<Nodes[k], 1>>

(***************************************************************************)
(* C1 (as amended): for an indexed triangle-list primitive, every index    *)
(* count above 9232 that is a multiple of 3 (9234, ...) yields the         *)
(* too-many-indices validation error, an Err value and not a panic; every  *)
(* multiple of 3 up to 9231 is accepted and its batch info is written; an  *)
(* index count that is not a multiple of 3, 9232 and 9233 among them, ends *)
(* in the fatal assertion.                                                 *)
(***************************************************************************)
C1_IndexLimitOnMultiplesOfThree ==
    \A k \in 1..Len(Nodes) :
        SinglePrimCase(k) =>
            LET c == MeshOf(k)[1].indexCount
            IN  /\ (c % 3 = 0 /\ c > 9232) => TooManyIndices(k, c)
                /\ (c % 3 = 0 /\ c <= 9232) =>
                       /\ HasTok("render_state", Nodes[k], 1)
                       /\ TokVal("triangles_count", Nodes[k], 1) = c \div 3
                /\ c % 3 # 0 => FailedHere(k) /\ wrt.res = "panic"

\* C1, witness: a single primitive with 9234 indices was rejected with the
\* validation error
C1_Witness ==
    \E k \in 1..Len(Nodes) :
        SinglePrimCase(k) /\ MeshOf(k)[1].indexCount = 9234 /\ TooManyIndices(k, 9234)

\* C1 as stated: 9233 indices (and every count above 9232) give the validation
\* error, and 9232 indices are accepted
C1_AsStated ==
    \A k \in 1..Len(Nodes) :
        SinglePrimCase(k) =>
            LET c == MeshOf(k)[1].indexCount
            IN  /\ c > 9232 => TooManyIndices(k, c)
                /\ c = 9232 => HasTok("render_state", Nodes[k], 1)

(***************************************************************************)
(* C2: every primitive whose vertex count exceeds 5232 is rejected with    *)
(* the too-many-vertices validation error naming the count and the limit   *)
(* 5232; every primitive whose batch info is written has at most 5232      *)
(* vertices.                                                               *)
(***************************************************************************)
C2_VertexLimit ==
    \A k \in 1..Len(Nodes) :
        Attempted(k) =>
            \A p \in 1..Len(MeshOf(k)) :
                LET prim == MeshOf(k)[p]
                    v == get_primitive_vertex_count(prim)
                    \* the batch info of p was reached and p passes the other checks
                    reached ==
                        /\ HasTok("lod_unknown1", Nodes[k], 0)
                        /\ \A q \in 1..(p - 1) : HasTok("render_state", Nodes[k], q)
                        /\ prim.mode = "Triangles" /\ prim.hasIndices
                        /\ prim.indexCount % 3 = 0 /\ prim.indexCount <= 9232
                IN  /\ HasTok("vertices_count", Nodes[k], p) => v <= 5232
                    /\ (reached /\ v > 5232) =>
                           /\ FailedHere(k) /\ wrt.res = "err" /\ wrt.at = <<Nodes[k], p>>
                           /\ wrt.err = [msg |-> "primitive has too many vertices",
                                         count |-> v, limit |-> 5232]

(***************************************************************************)
(* C3: encoding a node fails with the too-many-textures validation error   *)
(* if and only if its mesh resolves to more than 7 distinct texture names  *)
(* (for a mesh all of whose primitives are valid).                         *)
(***************************************************************************)
DistinctTextureNames(mesh) ==
    {get_material_base_color_texture_name(mesh[i].material) : i \in 1..Len(mesh)}

TooManyTextures(k) ==
    /\ FailedHere(k) /\ wrt.res = "err"
    /\ wrt.err.msg = "found textures in a submesh but only are allowed"

C3_SevenDistinctTextures ==
    \A k \in 1..Len(Nodes) :
        (/\ Attempted(k)
         /\ HasTok("lod_flags", Nodes[k], 0)
         /\ \A p \in 1..Len(MeshOf(k)) :
                ValidButIndexCount(MeshOf(k)[p]) /\ MeshOf(k)[p].indexCount = 3)
        => (TooManyTextures(k) <=> Cardinality(DistinctTextureNames(MeshOf(k))) > 7)

(***************************************************************************)
(* C4 (as amended): the texture index written in a primitive's batch       *)
(* header is an index into the texture list of the LOD model, which holds  *)
(* the resolved texture name of every primitive in primitive order (not    *)
(* sorted, not deduplicated): 0 <= index < list length, list[index] is the *)
(* primitive's resolved texture name and no earlier entry is.  The entry   *)
(* of that list carries the name's index in the node's texture table.      *)
(***************************************************************************)
C4_IndexIntoLodTextureList ==
    \A i \in 1..Len(meshData) :
        LET n == meshData[i].node
            mesh == Unwrap(doc[n].mesh)
            list == [q \in 1..Len(mesh) |->
                        get_material_base_color_texture_name(mesh[q].material)]
            table == get_submesh_textures(doc[n])
        IN  \A p \in 1..Len(meshData[i].hdr) :
                LET index == meshData[i].hdr[p]
                IN  /\ 0 <= index /\ index < Len(list)
                    /\ list[index + 1] = list[p]
                    /\ \A q \in 1..index : list[q] # list[p]
                    /\ HasTok("lod_texture_id", n, index + 1)
                       => table[TokVal("lod_texture_id", n, index + 1) + 1] = list[p]

\* C4, witness: a written section with two primitives whose batch headers
\* hold different indices, where the LOD texture list is not the texture table
C4_Witness ==
    \E i \in 1..Len(meshData) :
        LET n == meshData[i].node
        IN  /\ Len(meshData[i].hdr) = 2
            /\ meshData[i].hdr[1] # meshData[i].hdr[2]
            /\ HasTok("lod_texture_id", n, 2)
            /\ get_submesh_textures(doc[n]) # LodTextures(Unwrap(doc[n].mesh))

\* C4 as stated: the index is an index into the node's texture table
C4_AsStated ==
    \A i \in 1..Len(meshData) :
        LET n == meshData[i].node
            mesh == Unwrap(doc[n].mesh)
            table == get_submesh_textures(doc[n])
        IN  \A p \in 1..Len(meshData[i].hdr) :
                LET index == meshData[i].hdr[p]
                IN  /\ 0 <= index /\ index < Len(table)
                    /\ table[index + 1] = get_material_base_color_texture_name(mesh[p].material)

(***************************************************************************)
(* C5: validation precedes encoding, per primitive: when a primitive fails *)
(* a check of write_v3d_batch_info (draw mode, presence of indices, index  *)
(* and vertex limits), no block of that primitive has been encoded into    *)
(* the data section and no batch data of its node is in the output.        *)
(***************************************************************************)
ValidationMessages ==
    {"only triangle list primitives are supported",
     "not indexed geometry is not supported",
     "primitive has too many indices",
     "primitive has too many vertices"}

C5_ValidationBeforeEncoding ==
    \A k \in 1..Len(Nodes) :
        (FailedHere(k) /\ wrt.res = "err" /\ wrt.err.msg \in ValidationMessages)
        => /\ ~HasTok("batch_data", Nodes[k], 0)
           /\ HasData(Nodes[k]) =>
                  \A j \in 1..Len(DataOf(Nodes[k]).marks) :
                      DataOf(Nodes[k]).marks[j].prim # wrt.at[2]

(***************************************************************************)
(* C6: for every primitive that has no index list or whose draw mode is    *)
(* not triangle-list, the conversion of its node ends with a validation    *)
(* error (Err), never with a panic.                                        *)
(***************************************************************************)
C6_StructuredError ==
    \A k \in 1..Len(Nodes) :
        (/\ Attempted(k)
         /\ HasTok("lod_flags", Nodes[k], 0)
         /\ \E p \in 1..Len(MeshOf(k)) :
                ~MeshOf(k)[p].hasIndices \/ MeshOf(k)[p].mode # "Triangles")
        => FailedHere(k) /\ wrt.res = "err"

(***************************************************************************)
(* C7: a failure while writing a node's section stops write_v3d at once:   *)
(* the failed section is left incomplete, nothing of a later node is       *)
(* written and the end marker is not written; the end marker is in the     *)
(* output only when the header and the complete section of every           *)
(* mesh-bearing node are.                                                  *)
(***************************************************************************)
EndMarkerWritten ==
    \E i \in 1..Len(wrt.out) :
        wrt.out[i].kind = "section_type" /\ wrt.out[i].val = V3D_END

\* the last field of the section of node n is in the output
SectionComplete(n) == HasTok("unknown1_float", n, 0)

MeshBearing == {n \in 1..Len(doc) : IsSome(doc[n].mesh)}

C7_FailureAborts ==
    /\ wrt.res # "ok" <=> pc \in {"failed", "panicked"}
    /\ pc \in {"failed", "panicked"} =>
           /\ ~EndMarkerWritten
           /\ idx \in 1..Len(Nodes) /\ ~SectionComplete(Nodes[idx])
           /\ \A i \in 1..Len(wrt.out) : wrt.out[i].node <= Nodes[idx]
    /\ EndMarkerWritten =>
           /\ pc = "done" /\ wrt.res = "ok"
           /\ HasTok("signature", 0, 0) /\ HasTok("num_colspheres", 0, 0)
           /\ \A n \in MeshBearing : SectionComplete(n)

\* C7, witness: the section of the second of three mesh-bearing nodes failed
\* after the first one had been written completely
C7_Witness ==
    /\ pc \in {"failed", "panicked"}
    /\ Len(Nodes) = 3 /\ idx = 2
    /\ SectionComplete(Nodes[1])
    /\ HasTok("section_type", Nodes[2], 0)

(***************************************************************************)
(* C8: in every data section built by create_v3d_mesh_data, the end of the *)
(* batch-header array and the end of every block of every primitive        *)
(* (positions, normals, texture coordinates, triangles, planes, same       *)
(* position offsets, bone links) lie at a multiple of 16 bytes from the    *)
(* start of the data section, and so does the end of the data section.     *)
(***************************************************************************)
BatchBlocks ==
    <<"positions", "normals", "tex_coords", "triangles", "planes",
      "same_pos_vertex_offsets", "bone_links">>

C8_BlocksAligned ==
    \A i \in 1..Len(meshData) :
        LET d == meshData[i]
            mesh == Unwrap(doc[d.node].mesh)
        IN  /\ \A j \in 1..Len(d.marks) : d.marks[j].off % 16 = 0
            /\ d.res = "ok" =>
                   /\ d.len % 16 = 0
                   /\ Len(d.marks) = 7 * Len(mesh) + 2
                   /\ d.marks[1].block = "headers"
                   /\ d.marks[1].off >= 56 * Len(mesh)
                   /\ d.marks[1].off < 56 * Len(mesh) + 16
                   /\ \A p \in 1..Len(mesh) : \A b \in 1..7 :
                          LET m == d.marks[1 + 7 * (p - 1) + b]
                          IN  m.prim = p /\ m.block = BatchBlocks[b]
                   /\ d.marks[Len(d.marks)].off = d.len

\* C8, witness: a data section of three primitives, whose batch-header array
\* (168 bytes) and whose 36-byte positions blocks need padding
C8_Witness ==
    \E i \in 1..Len(meshData) :
        /\ meshData[i].res = "ok"
        /\ Len(meshData[i].hdr) = 3
        /\ meshData[i].marks[1].off = 176
        /\ meshData[i].marks[2].off = 224
        /\ Len(meshData[i].marks) = 23

(***************************************************************************)
(* C9: in every successfully written file the sections are one per         *)
(* mesh-bearing node, in the order of the document's node list, followed   *)
(* by a single end marker; the header's submesh count is the number of     *)
(* sections written and its material count is the sum of the material      *)
(* counts of the sections, each the number of distinct texture names of    *)
(* its node (a name used by two nodes is counted twice).                   *)
(***************************************************************************)
IsSectionType(t) == t.kind = "section_type"

SectionTypes == SelectSeq(wrt.out, IsSectionType)

RECURSIVE SumMaterialCounts(_)
SumMaterialCounts(secs) ==
    IF secs = <<>> THEN 0
    ELSE (IF Head(secs).val = V3D_END THEN 0 ELSE TokVal("num_materials", Head(secs).node, 0))
         + SumMaterialCounts(Tail(secs))

C9_SectionsAndCounts ==
    pc = "done" =>
        LET secs == SectionTypes
            last == Len(secs)
        IN  /\ last = Cardinality(MeshBearing) + 1
            /\ \A k \in 1..(last - 1) :
                   /\ secs[k].val = V3D_SUBMESH
                   /\ secs[k].node \in MeshBearing
                   /\ k > 1 => secs[k - 1].node < secs[k].node
            /\ secs[last].val = V3D_END
            /\ wrt.out[Len(wrt.out) - 1] = secs[last]
            /\ TokVal("submesh_count", 0, 0) = last - 1
            /\ TokVal("num_all_materials", 0, 0) = SumMaterialCounts(secs)
            /\ \A n \in MeshBearing :
                   TokVal("num_materials", n, 0)
                       = Cardinality(DistinctTextureNames(Unwrap(doc[n].mesh)))

\* C9, witness: a written file of a document with a node without mesh and two
\* mesh-bearing nodes that use the same single texture
C9_Witness ==
    /\ pc = "done"
    /\ Len(doc) = 3 /\ Cardinality(MeshBearing) = 2
    /\ \A n \in MeshBearing : get_submesh_textures(doc[n]) = <<<<"a", ".", "t", "g", "a">>>>
    /\ TokVal("num_all_materials", 0, 0) = 2
    /\ TokVal("submesh_count", 0, 0) = 2

(***************************************************************************)
(* C10 (as amended): the render state written for a primitive is           *)
(* texSrc | colorOp<<5 | alphaOp<<10 | alphaBlend<<15 | zBuffer<<20 |      *)
(* fog<<25, where texSrc is Clamp (2) when the material has a base colour  *)
(* texture whose S wrap mode is ClampToEdge and Wrap (1) otherwise,        *)
(* whatever the T mode; Blend gives (AlphaBlendAlpha 3, FullAlphaTest 5),  *)
(* Opaque gives (None 0, Full 4), any other alpha mode (None 0,            *)
(* FullAlphaTest 5); colorOp is Mul (2), alphaOp is Mul (3); and the fog   *)
(* field is FogType::Type0 (0), which is not the ForceOff value (3).       *)
(***************************************************************************)
ExpectedRenderState(m, fog) ==
    (IF m.baseTex /\ m.wrapS = "ClampToEdge" THEN 2 ELSE 1)
    + 32 * 2
    + 1024 * 3
    + 32768 * (IF m.alphaMode = "Blend" THEN 3 ELSE 0)
    + 1048576 * (IF m.alphaMode = "Opaque" THEN 4 ELSE 5)
    + 33554432 * fog

MaterialOfToken(t) == Unwrap(doc[t.node].mesh)[t.prim].material

C10_RenderStateFogType0 ==
    \A i \in 1..Len(wrt.out) :
        wrt.out[i].kind = "render_state" =>
            wrt.out[i].val = ExpectedRenderState(MaterialOfToken(wrt.out[i]), 0)

\* C10, witness: the render state 0x500C41 written for a material with S mode
\* MirroredRepeat, T mode ClampToEdge and alpha mode Mask
C10_Witness ==
    \E i \in 1..Len(wrt.out) :
        /\ wrt.out[i].kind = "render_state"
        /\ MaterialOfToken(wrt.out[i]).baseTex
        /\ MaterialOfToken(wrt.out[i]).wrapS = "MirroredRepeat"
        /\ MaterialOfToken(wrt.out[i]).wrapT = "ClampToEdge"
        /\ MaterialOfToken(wrt.out[i]).alphaMode = "Mask"
        /\ wrt.out[i].val = 5246017

\* C10 with the fog field at the fog-off value, FogType::ForceOff
C10_FogForceOff ==
    \A i \in 1..Len(wrt.out) :
        wrt.out[i].kind = "render_state" =>
            wrt.out[i].val = ExpectedRenderState(MaterialOfToken(wrt.out[i]), FogType_ForceOff)

(***************************************************************************)
(* C11: the texture table returned by get_submesh_textures does not depend *)
(* on the order of the node's primitives: the table of the reordered mesh  *)
(* is the same list, for every exchange of two primitives (exchanges       *)
(* generate every reordering) and, for a mesh of at most MaxPermLen        *)
(* primitives, for every permutation; the table is strictly ascending in   *)
(* byte order (sorted, without duplicates) and holds exactly the resolved  *)
(* texture names of the primitives; its length is the material count       *)
(* written in the node's section.                                          *)
(***************************************************************************)
Reordered(mesh, f) == [i \in 1..Len(mesh) |-> mesh[f[i]]]

Exchange(n, a, b) == [i \in 1..n |-> IF i = a THEN b ELSE IF i = b THEN a ELSE i]

Reorderings(n) ==
    {Exchange(n, a, b) : a \in 1..n, b \in 1..n}
    \cup (IF n <= MaxPermLen THEN Permutations(1..n) ELSE {})

TableOf(mesh) == get_submesh_textures(Node(None, Some(mesh)))

C11_TextureTableOrderIndependent ==
    \A n \in MeshBearing :
        LET mesh == Unwrap(doc[n].mesh)
            table == get_submesh_textures(doc[n])
        IN  /\ \A f \in Reorderings(Len(mesh)) : TableOf(Reordered(mesh, f)) = table
            /\ \A i \in 1..Len(table) : \A j \in (i + 1)..Len(table) :
                   StrLess(table[i], table[j])
            /\ {table[i] : i \in 1..Len(table)} = DistinctTextureNames(mesh)
            /\ HasTok("num_materials", n, 0) => TokVal("num_materials", n, 0) = Len(table)

\* C11, witness: the written section of a node of four primitives whose
\* textures come in descending order with a repetition (c, b, a, c)
C11_Witness ==
    \E n \in MeshBearing :
        LET mesh == Unwrap(doc[n].mesh)
        IN  /\ PrimitiveTextureNames(mesh)
                   = <<<<"c", ".", "t", "g", "a">>, <<"b", ".", "t", "g", "a">>,
                       <<"a", ".", "t", "g", "a">>, <<"c", ".", "t", "g", "a">>>>
            /\ get_submesh_textures(doc[n])
                   = <<<<"a", ".", "t", "g", "a">>, <<"b", ".", "t", "g", "a">>,
                       <<"c", ".", "t", "g", "a">>>>
            /\ HasTok("num_materials", n, 0) /\ TokVal("num_materials", n, 0) = 3

(***************************************************************************)
(* C12: texture-name resolution replaces only the extension of the image   *)
(* name or URI: the resolved name of a primitive's material is its source  *)
(* name (the image name, else the URI) up to, not including, its last '.', *)
(* followed by ".tga", also when the source name holds more than one '.';  *)
(* a source name without '.' gets ".tga" appended.  The name written in    *)
(* the LOD texture entry of the primitive is that name.                    *)
(***************************************************************************)
HasSourceName(m) == m.baseTex /\ (IsSome(m.imgName) \/ IsSome(m.uri))

SourceName(m) == IF IsSome(m.imgName) THEN Unwrap(m.imgName) ELSE Unwrap(m.uri)

\* the number of characters before the last '.', the whole length without one
BeforeLastDot(name) ==
    LET dots == {i \in 1..Len(name) : name[i] = "."}
    IN  IF dots = {} THEN Len(name)
        ELSE (CHOOSE i \in dots : \A j \in dots : j <= i) - 1

ExtensionReplaced(name) == SubSeq(name, 1, BeforeLastDot(name)) \o <<".", "t", "g", "a">>

C12_OnlyExtensionReplaced ==
    \A n \in MeshBearing :
        \A p \in 1..Len(Unwrap(doc[n].mesh)) :
            LET m == Unwrap(doc[n].mesh)[p].material
            IN  (HasSourceName(m) /\ HasTok("lod_texture_name", n, p)) =>
                    /\ get_material_base_color_texture_name(m)
                           = ExtensionReplaced(SourceName(m))
                    \* the name and its terminating zero byte
                    /\ TokVal("lod_texture_name", n, p)
                           = Len(ExtensionReplaced(SourceName(m))) + 1

(***************************************************************************)
(* C13: for every primitive that passes the index-count and vertex-count   *)
(* checks of write_v3d_batch_info (the first field of its batch info,      *)
(* vertices_count, is then written), each value written as an unsigned     *)
(* 16-bit field (v, t, 12*v, 8*t, 2*v, 8*v, 8*v for v vertices and t       *)
(* triangles) is at most 65535, so that no conversion to u16 fails and the *)
(* batch info is written to its last field.                                *)
(***************************************************************************)
BatchInfoU16Values(prim) ==
    LET v == get_primitive_vertex_count(prim)
        t == prim.indexCount \div 3
    IN  {v, t, v * 3 * 4, t * 4 * 2, v * 2, v * 2 * 4}

C13_U16FieldsFitAfterValidation ==
    \A n \in MeshBearing :
        \A p \in 1..Len(Unwrap(doc[n].mesh)) :
            HasTok("vertices_count", n, p) =>
                /\ \A x \in BatchInfoU16Values(Unwrap(doc[n].mesh)[p]) : x <= 65535
                /\ HasTok("tex_coords_size", n, p) /\ HasTok("render_state", n, p)
                /\ ~(wrt.res = "panic" /\ wrt.at = <<n, p>>)

====
